---- MODULE Spec2Model ----
(***************************************************************************)
(* themelio-utils: the stdcode canonical codec (bincode with varint        *)
(* encoding, trailing bytes rejected, size limit = input length), its      *)
(* serde field adapters (asstr, try_asstr, hex, hexvec) and tmelcrypt's    *)
(* majority beacon.                                                        *)
(*                                                                         *)
(* Values: u8/u16 are naturals, bool is BOOLEAN, a string or byte buffer   *)
(* is a sequence of bytes (a string is its UTF-8/ASCII bytes), a sequence  *)
(* or tuple is a TLA+ sequence, an enum value is <<variant index,          *)
(* payload>>.  A type is a record [k |-> kind, ...].                       *)
(***************************************************************************)
EXTENDS Integers, Sequences, FiniteSets, TLC

VARIABLES
    pc,      \* position of the call sequence being modelled
    fmt,     \* the target format: "bincode" (binary) or "json" (human readable)
    ty,      \* the type being encoded / decoded
    src,     \* "value": the run starts from a value; "input": from raw input
    val,     \* the value handed to serialize
    buf,     \* the encoded form (bytes for bincode, a content tree for json)
    suffix,  \* bytes appended to buf after encoding
    res,     \* result of deserialize
    out,     \* res.val serialized again, or the reading of res.val's native form
    elems,   \* majority_beacon's input
    beacon   \* majority_beacon's result

vars == <<pc, fmt, ty, src, val, buf, suffix, res, out, elems, beacon>>

(***************************************************************************)
(* Bounds of the model.                                                    *)
(***************************************************************************)
MaxLen == 3        \* longest raw input byte string
MaxSeq == 2        \* longest sample sequence / byte buffer value
MaxSuffix == 1     \* most bytes appended after an encoding
MaxElems == 3      \* most hashes handed to majority_beacon

\* bytes raw inputs are drawn from: small values, the varint boundary, the tags
InputBytes == {0, 1, 2, 250, 251, 252, 255}

Min(a, b) == IF a < b THEN a ELSE b

SeqsUpTo(S, n) == UNION {[1..m -> S] : m \in 0..n}

RECURSIVE Concat(_)
Concat(ss) == IF ss = <<>> THEN <<>> ELSE Head(ss) \o Concat(Tail(ss))

(***************************************************************************)
(* Types.                                                                  *)
(***************************************************************************)
Unit == [k |-> "unit"]
U8 == [k |-> "u8"]
Bool == [k |-> "bool"]
U16 == [k |-> "u16"]
\* String: a length-prefixed UTF-8 buffer in bincode, a string in json
StringT == [k |-> "string"]
\* bytes::Bytes: a length-prefixed buffer read with deserialize_byte_buf
BytesT == [k |-> "bytes"]
\* tests::Inner of try_asstr.rs: struct Inner { laboo: String }
Inner == [k |-> "Inner"]
SeqOf(t) == [k |-> "seq", e |-> t]
\* a struct's fields in declared order; [T; N] is the tuple of N times T
TupleOf(ts) == [k |-> "tuple", ts |-> ts]
\* a tagged union: one payload type per variant
EnumOf(ts) == [k |-> "enum", ts |-> ts]
\* a T field annotated serde(with = "asstr"); SerializeAsString<T> is transparent over it
AsStr(t) == [k |-> "asstr", t |-> t]
\* a T field annotated serde(with = "try_asstr")
TryAsStr(t) == [k |-> "try_asstr", t |-> t]
\* a Vec<u8> field annotated serde(with = "hex"): HexBytes, HexBytesInner
Hex == [k |-> "hex"]
\* a Vec<Vec<u8>> field annotated serde(with = "hexvec")
HexVec == [k |-> "hexvec"]
\* hexvec.rs's struct HexBytes(Vec<u8>) and lib.rs's struct HexBytesInner(Vec<u8>):
\* a value of either is [f0 |-> the wrapped buffer]
HexBytesT == [k |-> "HexBytes"]
HexBytesInnerT == [k |-> "HexBytesInner"]

(***************************************************************************)
(* bincode's varint integer encoding.                                      *)
(***************************************************************************)
SINGLE_BYTE_MAX == 250
U16_BYTE == 251
U32_BYTE == 252
U64_BYTE == 253
U16_MAX == 65535
\* TLC's integers are 32 bits wide: literals decode exactly below IntCap and
\* saturate at it.  Every field of the model is a u16, a length or a variant
\* index, for which all values above U16_MAX behave alike.
IntCap == (2^30 - 1) + 2^30

RECURSIVE le_bytes(_, _)
le_bytes(n, w) == IF w = 0 THEN <<>> ELSE <<n % 256>> \o le_bytes(n \div 256, w - 1)

sat_shift(b, hi) == IF hi > (IntCap - b) \div 256 THEN IntCap ELSE b + 256 * hi

\* little-endian literal, most significant byte last
RECURSIVE le_value(_)
le_value(bs) == IF bs = <<>> THEN 0 ELSE sat_shift(Head(bs), le_value(Tail(bs)))

\* a varint encoder that takes the single-byte range one value too far
serialize_varint_wide(n) ==
    IF n <= SINGLE_BYTE_MAX + 1 THEN <<n>>
    ELSE IF n <= U16_MAX THEN <<U16_BYTE>> \o le_bytes(n, 2)
    ELSE <<U32_BYTE>> \o le_bytes(n, 4)

serialize_varint(n) ==
    IF n <= SINGLE_BYTE_MAX THEN <<n>>
    ELSE IF n <= U16_MAX THEN <<U16_BYTE>> \o le_bytes(n, 2)
    ELSE <<U32_BYTE>> \o le_bytes(n, 4)

(***************************************************************************)
(* The slice reader with its byte budget (with_limit), and what it has     *)
(* reserved so far.                                                        *)
(***************************************************************************)
Reader(bts, limit) == [rest |-> bts, limit |-> limit, alloc |-> 0]
Ok(v, rd) == [ok |-> TRUE, val |-> v, rd |-> rd]
Err(e, rd) == [ok |-> FALSE, err |-> e, alloc |-> rd.alloc]

\* Rust's `?`: an error is returned as it is, a success is handed on
AndThen(r, F(_)) == IF r.ok THEN F(r) ELSE r

\* Bounded::add, then the slice read: the budget is charged before the read
\* a reader without the byte budget
read_exact_unbudgeted(rd, n) ==
    IF Len(rd.rest) < n THEN Err("Malformed", rd)
    ELSE Ok(SubSeq(rd.rest, 1, n),
            [rd EXCEPT !.rest = SubSeq(rd.rest, n + 1, Len(rd.rest))])

read_exact(rd, n) ==
    IF rd.limit < n THEN Err("SizeLimitExceeded", rd)
    ELSE IF Len(rd.rest) < n THEN Err("Malformed", rd)
    ELSE Ok(SubSeq(rd.rest, 1, n),
            [rd EXCEPT !.rest = SubSeq(rd.rest, n + 1, Len(rd.rest)),
                       !.limit = rd.limit - n])

literal_width(tag) ==
    CASE tag = U16_BYTE -> 2
      [] tag = U32_BYTE -> 4
      [] tag = U64_BYTE -> 8

\* accepts any tag whose literal follows: the literal's magnitude is not checked
deserialize_varint(rd) ==
    AndThen(read_exact(rd, 1), LAMBDA b :
        IF b.val[1] <= SINGLE_BYTE_MAX THEN Ok(b.val[1], b.rd)
        ELSE IF b.val[1] \in {U16_BYTE, U32_BYTE, U64_BYTE}
             THEN AndThen(read_exact(b.rd, literal_width(b.val[1])),
                          LAMBDA lit : Ok(le_value(lit.val), lit.rd))
        ELSE Err("Malformed", b.rd))

(***************************************************************************)
(* Strings are sequences of ASCII codes.  Display / FromStr of the types   *)
(* the string adapters wrap.                                               *)
(***************************************************************************)
Digit(d) == 48 + d
IsDigit(c) == c >= 48 /\ c <= 57

RECURSIVE decimal(_)
decimal(n) == IF n < 10 THEN <<Digit(n)>> ELSE Append(decimal(n \div 10), Digit(n % 10))

\* value of a digit string, saturating above U16_MAX
RECURSIVE digits_value(_, _)
digits_value(s, acc) ==
    IF s = <<>> THEN acc
    ELSE digits_value(Tail(s), Min(acc * 10 + (Head(s) - 48), U16_MAX + 1))

\* u16's FromStr: an optional '+', then one or more digits, at most u16::MAX
parse_digits(body) ==
    IF body = <<>> \/ \E i \in 1..Len(body) : ~IsDigit(body[i])
    THEN [ok |-> FALSE, err |-> "InvalidDigit"]
    ELSE IF digits_value(body, 0) > U16_MAX THEN [ok |-> FALSE, err |-> "PosOverflow"]
    ELSE [ok |-> TRUE, val |-> digits_value(body, 0)]

parse_u16(s) ==
    IF s = <<>> THEN [ok |-> FALSE, err |-> "Empty"]
    ELSE parse_digits(IF s[1] = 43 THEN Tail(s) ELSE s)

\* the wrapped types that have a Display: the test type Inner has FromStr only
HasDisplay(t) == t.k \in {"u16", "string"}

to_string(t, v) ==
    CASE t.k = "u16" -> decimal(v)
      [] t.k = "string" -> v

from_str(t, s) ==
    CASE t.k = "u16" -> parse_u16(s)
      [] t.k = "string" -> [ok |-> TRUE, val |-> s]
      [] t.k = "Inner" -> [ok |-> TRUE, val |-> [laboo |-> s]]

(***************************************************************************)
(* Hexadecimal text.                                                       *)
(***************************************************************************)
hex_digit(d) == IF d < 10 THEN 48 + d ELSE 87 + d

RECURSIVE hex_encode(_)
hex_encode(bs) ==
    IF bs = <<>> THEN <<>>
    ELSE <<hex_digit(Head(bs) \div 16), hex_digit(Head(bs) % 16)>> \o hex_encode(Tail(bs))

IsHexChar(c) == IsDigit(c) \/ (c >= 97 /\ c <= 102) \/ (c >= 65 /\ c <= 70)
hex_val(c) == IF IsDigit(c) THEN c - 48 ELSE IF c >= 97 THEN c - 87 ELSE c - 55

RECURSIVE hex_pairs(_)
hex_pairs(s) ==
    IF s = <<>> THEN <<>>
    ELSE <<16 * hex_val(s[1]) + hex_val(s[2])>> \o hex_pairs(SubSeq(s, 3, Len(s)))

hex_decode(s) ==
    IF Len(s) % 2 = 1 \/ \E i \in 1..Len(s) : ~IsHexChar(s[i])
    THEN [ok |-> FALSE, err |-> "InvalidHex"]
    ELSE [ok |-> TRUE, val |-> hex_pairs(s)]

(***************************************************************************)
(* The human-readable format, at the level of serde's data model: what a   *)
(* value is written as, and what an input is shaped as.                    *)
(***************************************************************************)
Str(s) == [k |-> "str", s |-> s]
Num(n) == [k |-> "num", n |-> n]
BoolC(b) == [k |-> "bool", b |-> b]
Arr(xs) == [k |-> "arr", xs |-> xs]
Obj(key, c) == [k |-> "obj", key |-> key, c |-> c]

TOk(v) == [ok |-> TRUE, val |-> v]
TErr(e) == [ok |-> FALSE, err |-> e]

is_human_readable(f) == f = "json"

(***************************************************************************)
(* Serialization.  f names the serializer's format.  An adapter's `native` *)
(* argument is val.serialize(serializer), the wrapped type's own           *)
(* serialization with the same serializer.                                 *)
(***************************************************************************)
serialize_str(f, s) == IF f = "bincode" THEN serialize_varint(Len(s)) \o s ELSE Str(s)

serialize_bytes(f, bs) ==
    IF f = "bincode" THEN serialize_varint(Len(bs)) \o bs
    ELSE Arr([i \in 1..Len(bs) |-> Num(bs[i])])

\* a sequence whose elements are already serialized
serialize_seq(f, parts) ==
    IF f = "bincode" THEN serialize_varint(Len(parts)) \o Concat(parts) ELSE Arr(parts)

\* a tuple, fixed array or struct whose fields are already serialized
serialize_tuple(f, parts) == IF f = "bincode" THEN Concat(parts) ELSE Arr(parts)

\* an asstr that writes the string form to every format
asstr_serialize_always_string(f, t, val_, native) == serialize_str(f, to_string(t, val_))

asstr_serialize(f, t, val_, native) ==
    IF is_human_readable(f) THEN serialize_str(f, to_string(t, val_))
    ELSE native

try_asstr_serialize(f, t, val_, native) ==
    IF is_human_readable(f) THEN serialize_str(f, to_string(t, val_))
    ELSE native

hex_serialize(f, bs) ==
    IF is_human_readable(f) THEN serialize_str(f, hex_encode(bs))
    ELSE serialize_bytes(f, bs)

\* hexvec.rs's HexBytes and lib.rs's HexBytesInner: serde(transparent) over a
\* field annotated serde(with = "crate::hex")
HexBytes_serialize(f, h) == hex_serialize(f, h.f0)
HexBytesInner_serialize(f, h) == hex_serialize(f, h.f0)

\* &[Vec<u8>] seen as &[HexBytes]: HexBytes is repr(transparent) over its one
\* field, so element i of the view is the HexBytes whose field is bytes[i]
transmute_to_HexBytes(bytes) == [i \in 1..Len(bytes) |-> [f0 |-> bytes[i]]]

\* <[HexBytes] as Serialize>::serialize
HexBytes_slice_serialize(f, casted) ==
    serialize_seq(f, [i \in 1..Len(casted) |-> HexBytes_serialize(f, casted[i])])

\* a hexvec that writes the buffers as Vec<Vec<u8>> writes them
hexvec_serialize_plain(f, bytes) ==
    serialize_seq(f, [i \in 1..Len(bytes) |-> serialize_bytes(f, bytes[i])])

hexvec_serialize(f, bytes) == HexBytes_slice_serialize(f, transmute_to_HexBytes(bytes))

\* HexBytesInner::from and Vec<u8>::from(HexBytesInner)
HexBytesInner_from(bs) == [f0 |-> bs]
HexBytesInner_into(h) == h.f0

RECURSIVE bin_ser(_, _)
bin_ser(t, v) ==
    CASE t.k = "unit" -> <<>>
      [] t.k = "u8" -> <<v>>
      [] t.k = "bool" -> <<IF v THEN 1 ELSE 0>>
      [] t.k = "u16" -> serialize_varint(v)
      [] t.k = "string" -> serialize_str("bincode", v)
      [] t.k = "bytes" -> serialize_bytes("bincode", v)
      [] t.k = "Inner" -> serialize_str("bincode", v.laboo)
      [] t.k = "seq" -> serialize_seq("bincode", [i \in 1..Len(v) |-> bin_ser(t.e, v[i])])
      [] t.k = "tuple" ->
            serialize_tuple("bincode", [i \in 1..Len(v) |-> bin_ser(t.ts[i], v[i])])
      [] t.k = "enum" -> serialize_varint(v[1]) \o bin_ser(t.ts[v[1] + 1], v[2])
      [] t.k = "asstr" -> asstr_serialize("bincode", t.t, v, bin_ser(t.t, v))
      [] t.k = "try_asstr" -> try_asstr_serialize("bincode", t.t, v, bin_ser(t.t, v))
      [] t.k = "hex" -> hex_serialize("bincode", v)
      [] t.k = "HexBytes" -> HexBytes_serialize("bincode", v)
      [] t.k = "HexBytesInner" -> HexBytesInner_serialize("bincode", v)
      [] t.k = "hexvec" -> hexvec_serialize("bincode", v)

RECURSIVE text_ser(_, _)
text_ser(t, v) ==
    CASE t.k \in {"u8", "u16"} -> Num(v)
      [] t.k = "bool" -> BoolC(v)
      [] t.k = "string" -> serialize_str("json", v)
      [] t.k = "bytes" -> serialize_bytes("json", v)
      [] t.k = "Inner" -> Obj("laboo", serialize_str("json", v.laboo))
      [] t.k = "seq" -> serialize_seq("json", [i \in 1..Len(v) |-> text_ser(t.e, v[i])])
      [] t.k = "tuple" ->
            serialize_tuple("json", [i \in 1..Len(v) |-> text_ser(t.ts[i], v[i])])
      [] t.k = "asstr" -> asstr_serialize("json", t.t, v, text_ser(t.t, v))
      [] t.k = "try_asstr" -> try_asstr_serialize("json", t.t, v, text_ser(t.t, v))
      [] t.k = "hex" -> hex_serialize("json", v)
      [] t.k = "HexBytes" -> HexBytes_serialize("json", v)
      [] t.k = "HexBytesInner" -> HexBytesInner_serialize("json", v)
      [] t.k = "hexvec" -> hexvec_serialize("json", v)

\* stdcode::serialize
serialize(t, v) == bin_ser(t, v)

(***************************************************************************)
(* Deserialization.  The deserializer d is a Reader for bincode and the    *)
(* input's content for json.  An adapter's `native` argument is            *)
(* T::deserialize(deserializer), the wrapped type's own deserialization of *)
(* the same input.                                                         *)
(***************************************************************************)
\* serde's size_hint::cautious: Vec<T>'s visitor reserves min(declared, cap)
\* elements up front; the cap is serde's constant (4096 elements)
PreallocCap == 4096

\* bincode's read_vec: the declared length is charged to the budget, then read
read_vec(rd) ==
    AndThen(deserialize_varint(rd), LAMBDA n :
        AndThen(read_exact(n.rd, n.val), LAMBDA b :
            Ok(b.val, [b.rd EXCEPT !.alloc = @ + n.val])))

\* the bytes of the model that String::from_utf8 accepts are the ASCII ones: the
\* others drawn here, 0xAB and 0xF8..0xFF on their own, are no UTF-8 text
IsUtf8(bs) == \A i \in 1..Len(bs) : bs[i] < 128

\* bincode's read_string
read_string(rd) ==
    AndThen(read_vec(rd), LAMBDA b : IF IsUtf8(b.val) THEN b ELSE Err("Malformed", b.rd))

String_deserialize(f, d) ==
    IF f = "bincode" THEN read_string(d)
    ELSE IF d.k = "str" THEN TOk(d.s) ELSE TErr("Malformed")

\* s.parse().map_err(|e| Error::custom(format!("FromStr parsing error {:?}", e)))
\* for a string s that was read; p is s.parse()
parse_result(s, p) ==
    IF p.ok THEN [s EXCEPT !.val = p.val]
    ELSE [ok |-> FALSE, err |-> "ParseError", cause |-> p.err]

\* an asstr that hands a string FromStr rejects to the wrapped type's own reader
asstr_deserialize_fallback(f, t, d, native) ==
    IF is_human_readable(f)
    THEN AndThen(String_deserialize(f, d), LAMBDA s :
             IF from_str(t, s.val).ok THEN parse_result(s, from_str(t, s.val)) ELSE native)
    ELSE native

asstr_deserialize(f, t, d, native) ==
    IF is_human_readable(f)
    THEN AndThen(String_deserialize(f, d), LAMBDA s : parse_result(s, from_str(t, s.val)))
    ELSE native

\* a MaybeString with the String variant only
MaybeString_string_only(s, native) ==
    IF s.ok THEN [ok |-> TRUE, variant |-> "String", val |-> s.val, tried |-> <<"String">>]
    ELSE [ok |-> FALSE, err |-> "Malformed", tried |-> <<"String">>]

\* a MaybeString declared as { Tee(T), String(String) }
MaybeString_tee_first(s, native) ==
    IF native.ok
    THEN [ok |-> TRUE, variant |-> "Tee", val |-> native.val, tried |-> <<"Tee">>]
    ELSE IF s.ok
         THEN [ok |-> TRUE, variant |-> "String", val |-> s.val,
               tried |-> <<"Tee", "String">>]
    ELSE [ok |-> FALSE, err |-> "Malformed", tried |-> <<"Tee", "String">>]

\* serde(untagged) enum MaybeString<T> { String(String), Tee(T) }: the input is
\* buffered and the variants are tried in declaration order, the first that
\* deserializes wins; tried lists the variants attempted
MaybeString_variants(s, native) ==
    IF s.ok THEN [ok |-> TRUE, variant |-> "String", val |-> s.val, tried |-> <<"String">>]
    ELSE IF native.ok
         THEN [ok |-> TRUE, variant |-> "Tee", val |-> native.val,
               tried |-> <<"String", "Tee">>]
    ELSE [ok |-> FALSE, err |-> "Malformed", tried |-> <<"String", "Tee">>]

MaybeString_deserialize(f, d, native) ==
    MaybeString_variants(String_deserialize(f, d), native)

\* match s { MaybeString::String(s) => s.parse().map_err(..), MaybeString::Tee(t) => Ok(t) }
MaybeString_parsed(s, p) ==
    IF p.ok THEN [s EXCEPT !.val = p.val]
    ELSE [ok |-> FALSE, err |-> "ParseError", cause |-> p.err, tried |-> s.tried]

MaybeString_match(t, s) ==
    IF s.variant = "String" THEN MaybeString_parsed(s, from_str(t, s.val)) ELSE s

try_asstr_deserialize(f, t, d, native) ==
    IF is_human_readable(f)
    THEN AndThen(MaybeString_deserialize(f, d, native), LAMBDA s : MaybeString_match(t, s))
    ELSE native

hex_result(s, p) ==
    IF p.ok THEN [s EXCEPT !.val = p.val] ELSE [ok |-> FALSE, err |-> "InvalidHex"]

hex_deserialize(f, d) ==
    IF is_human_readable(f)
    THEN AndThen(String_deserialize(f, d), LAMBDA s : hex_result(s, hex_decode(s.val)))
    ELSE read_vec(d)

HexBytes_deserialize(f, d) ==
    AndThen(hex_deserialize(f, d), LAMBDA b : [b EXCEPT !.val = [f0 |-> b.val]])

HexBytesInner_deserialize(f, d) ==
    AndThen(hex_deserialize(f, d), LAMBDA b : [b EXCEPT !.val = [f0 |-> b.val]])

\* Vec<HexBytes> seen as Vec<Vec<u8>>: element i is the field of lala[i]
transmute_from_HexBytes(lala) == [i \in 1..Len(lala) |-> lala[i].f0]

\* lala_result is Vec::<HexBytes>::deserialize(deserializer)
hexvec_deserialize(lala_result) ==
    AndThen(lala_result, LAMBDA lala : [lala EXCEPT !.val = transmute_from_HexBytes(lala.val)])

RECURSIVE bin_de(_, _), de_elems(_, _, _, _), de_fields(_, _, _)

de_elems(t, n, rd, acc) ==
    IF n = 0 THEN Ok(acc, rd)
    ELSE AndThen(bin_de(t, rd), LAMBDA r : de_elems(t, n - 1, r.rd, Append(acc, r.val)))

de_fields(ts, rd, acc) ==
    IF ts = <<>> THEN Ok(acc, rd)
    ELSE AndThen(bin_de(Head(ts), rd),
                 LAMBDA r : de_fields(Tail(ts), r.rd, Append(acc, r.val)))

\* Vec<T>'s visitor over bincode's deserialize_seq: the length is read, up to
\* PreallocCap slots are reserved, then the elements are read one by one
deserialize_seq(t, rd) ==
    AndThen(deserialize_varint(rd), LAMBDA n :
        de_elems(t, n.val, [n.rd EXCEPT !.alloc = @ + Min(n.val, PreallocCap)], <<>>))

bin_de(t, rd) ==
    CASE t.k = "unit" -> Ok(<<>>, rd)
      [] t.k = "u8" -> AndThen(read_exact(rd, 1), LAMBDA b : Ok(b.val[1], b.rd))
      [] t.k = "bool" ->
            AndThen(read_exact(rd, 1), LAMBDA b :
                IF b.val[1] \in {0, 1} THEN Ok(b.val[1] = 1, b.rd)
                ELSE Err("Malformed", b.rd))
      [] t.k = "u16" ->
            AndThen(deserialize_varint(rd), LAMBDA n :
                IF n.val > U16_MAX THEN Err("Malformed", n.rd) ELSE n)
      [] t.k = "string" -> read_string(rd)
      [] t.k = "bytes" -> read_vec(rd)
      [] t.k = "Inner" -> AndThen(read_string(rd), LAMBDA s : Ok([laboo |-> s.val], s.rd))
      [] t.k = "seq" -> deserialize_seq(t.e, rd)
      [] t.k = "tuple" -> de_fields(t.ts, rd, <<>>)
      [] t.k = "enum" ->
            AndThen(deserialize_varint(rd), LAMBDA idx :
                IF idx.val >= Len(t.ts) THEN Err("Malformed", idx.rd)
                ELSE AndThen(bin_de(t.ts[idx.val + 1], idx.rd),
                             LAMBDA p : Ok(<<idx.val, p.val>>, p.rd)))
      [] t.k = "asstr" -> asstr_deserialize("bincode", t.t, rd, bin_de(t.t, rd))
      [] t.k = "try_asstr" -> try_asstr_deserialize("bincode", t.t, rd, bin_de(t.t, rd))
      [] t.k = "hex" -> hex_deserialize("bincode", rd)
      [] t.k = "HexBytes" -> HexBytes_deserialize("bincode", rd)
      [] t.k = "HexBytesInner" -> HexBytesInner_deserialize("bincode", rd)
      [] t.k = "hexvec" -> hexvec_deserialize(deserialize_seq(HexBytesT, rd))

RECURSIVE text_de(_, _), text_elems(_, _, _)

text_elems(ts, cs, acc) ==
    IF cs = <<>> THEN TOk(acc)
    ELSE AndThen(text_de(Head(ts), Head(cs)),
                 LAMBDA r : text_elems(Tail(ts), Tail(cs), Append(acc, r.val)))

text_seq(t, c) ==
    IF c.k = "arr" THEN text_elems([i \in 1..Len(c.xs) |-> t], c.xs, <<>>)
    ELSE TErr("Malformed")

\* a derived struct reads a map with its field, or a sequence of its fields
Inner_deserialize(c) ==
    IF c.k = "obj" /\ c.key = "laboo" /\ c.c.k = "str" THEN TOk([laboo |-> c.c.s])
    ELSE IF c.k = "arr" /\ Len(c.xs) = 1 /\ c.xs[1].k = "str" THEN TOk([laboo |-> c.xs[1].s])
    ELSE TErr("Malformed")

text_de(t, c) ==
    CASE t.k = "u8" -> IF c.k = "num" /\ c.n <= 255 THEN TOk(c.n) ELSE TErr("Malformed")
      [] t.k = "u16" -> IF c.k = "num" /\ c.n <= U16_MAX THEN TOk(c.n) ELSE TErr("Malformed")
      [] t.k = "bool" -> IF c.k = "bool" THEN TOk(c.b) ELSE TErr("Malformed")
      [] t.k = "string" -> String_deserialize("json", c)
      [] t.k = "bytes" -> text_seq(U8, c)
      [] t.k = "Inner" -> Inner_deserialize(c)
      [] t.k = "seq" -> text_seq(t.e, c)
      [] t.k = "tuple" ->
            IF c.k = "arr" /\ Len(c.xs) = Len(t.ts) THEN text_elems(t.ts, c.xs, <<>>)
            ELSE TErr("Malformed")
      [] t.k = "asstr" -> asstr_deserialize("json", t.t, c, text_de(t.t, c))
      [] t.k = "try_asstr" -> try_asstr_deserialize("json", t.t, c, text_de(t.t, c))
      [] t.k = "hex" -> hex_deserialize("json", c)
      [] t.k = "HexBytes" -> HexBytes_deserialize("json", c)
      [] t.k = "HexBytesInner" -> HexBytesInner_deserialize("json", c)
      [] t.k = "hexvec" -> hexvec_deserialize(text_seq(HexBytesT, c))

\* stdcode::deserialize: varint encoding, the input's length as the byte budget,
\* trailing bytes rejected once the value is read
\* a decoder without reject_trailing_bytes
deserialize_prefix(t, bts) ==
    AndThen(bin_de(t, Reader(bts, Len(bts))), LAMBDA r :
        [ok |-> TRUE, val |-> r.val, alloc |-> r.rd.alloc])

deserialize(t, bts) ==
    AndThen(bin_de(t, Reader(bts, Len(bts))), LAMBDA r :
        IF r.rd.rest # <<>> THEN Err("TrailingData", r.rd)
        ELSE [ok |-> TRUE, val |-> r.val, alloc |-> r.rd.alloc])

(***************************************************************************)
(* The values and inputs the runs are drawn from.                          *)
(***************************************************************************)
SampleU8 == {0, 1, 250, 251, 255}
SampleU16 == {0, 7, 250, 251, 256, 65535}
\* '7', 'a'
SampleChars == {55, 97}
SampleBytes == {10, 171}

RECURSIVE ValuesOf(_), TupleValues(_)
TupleValues(ts) ==
    IF ts = <<>> THEN {<<>>}
    ELSE {<<x>> \o rest : x \in ValuesOf(Head(ts)), rest \in TupleValues(Tail(ts))}

ValuesOf(t) ==
    CASE t.k = "unit" -> {<<>>}
      [] t.k = "u8" -> SampleU8
      [] t.k = "bool" -> BOOLEAN
      [] t.k = "u16" -> SampleU16
      [] t.k = "string" -> SeqsUpTo(SampleChars, MaxSeq)
      [] t.k \in {"bytes", "hex"} -> SeqsUpTo(SampleBytes, MaxSeq)
      [] t.k = "Inner" -> {[laboo |-> s] : s \in SeqsUpTo(SampleChars, MaxSeq)}
      [] t.k \in {"HexBytes", "HexBytesInner"} ->
            {[f0 |-> b] : b \in SeqsUpTo(SampleBytes, MaxSeq)}
      [] t.k = "seq" -> SeqsUpTo(ValuesOf(t.e), MaxSeq)
      [] t.k = "tuple" -> TupleValues(t.ts)
      [] t.k = "enum" ->
            UNION {{<<i - 1, p>> : p \in ValuesOf(t.ts[i])} : i \in 1..Len(t.ts)}
      [] t.k \in {"asstr", "try_asstr"} -> ValuesOf(t.t)
      [] t.k = "hexvec" -> SeqsUpTo(SeqsUpTo(SampleBytes, MaxSeq), MaxSeq)

\* the canonical types: integers, strings and byte vectors, sequences, a fixed
\* array, a struct, a tagged union, and adapter-wrapped fields
CodecTypes ==
    {U8, Bool, U16, StringT, BytesT, Inner,
     SeqOf(U8), SeqOf(Bool), SeqOf(U16), SeqOf(StringT),
     TupleOf(<<U8, U8>>), TupleOf(<<U16, StringT>>), EnumOf(<<Unit, U16>>),
     AsStr(U16), TryAsStr(U16), Hex, HexVec}

(***************************************************************************)
(* The codec: serialize a value, or take raw bytes; append bytes;          *)
(* deserialize; serialize the decoded value again.                         *)
(***************************************************************************)
None == "none"

InitCodec ==
    /\ pc = "start"
    /\ fmt = "bincode"
    /\ ty \in CodecTypes
    /\ \/ src = "value" /\ val \in ValuesOf(ty) /\ buf = <<>>
       \/ src = "input" /\ val = None /\ buf \in SeqsUpTo(InputBytes, MaxLen)
    /\ suffix = <<>>
    /\ res = None
    /\ out = None
    /\ elems = <<>>
    /\ beacon = None

Encode ==
    /\ pc = "start" /\ src = "value"
    /\ buf' = serialize(ty, val)
    /\ pc' = "encoded"
    /\ UNCHANGED <<fmt, ty, src, val, suffix, res, out, elems, beacon>>

AppendByte ==
    /\ pc = "encoded" /\ Len(suffix) < MaxSuffix
    /\ \E b \in InputBytes :
          /\ buf' = Append(buf, b)
          /\ suffix' = Append(suffix, b)
    /\ UNCHANGED <<pc, fmt, ty, src, val, res, out, elems, beacon>>

Decode ==
    /\ pc \in {"start", "encoded"}
    /\ pc = "start" => src = "input"
    /\ res' = deserialize(ty, buf)
    /\ pc' = "decoded"
    /\ UNCHANGED <<fmt, ty, src, val, buf, suffix, out, elems, beacon>>

Reencode ==
    /\ pc = "decoded" /\ res.ok
    /\ out' = serialize(ty, res.val)
    /\ pc' = "reencoded"
    /\ UNCHANGED <<fmt, ty, src, val, buf, suffix, res, elems, beacon>>

NextCodec == Encode \/ AppendByte \/ Decode \/ Reencode

SpecCodec == InitCodec /\ [][NextCodec]_vars

\* C1: a value serialized by stdcode::serialize and handed unchanged to
\* stdcode::deserialize decodes successfully to the same value.
C1_RoundTrip ==
    (pc = "decoded" /\ src = "value" /\ suffix = <<>>) => (res.ok /\ res.val = val)

C1_Witness ==
    /\ pc = "decoded" /\ src = "value" /\ suffix = <<>>
    /\ ty = SeqOf(U16) /\ val = <<251, 7>> /\ res.ok

\* C2: whenever stdcode::deserialize accepts a byte string, serializing the
\* decoded value gives that byte string back.
C2_Canonical == pc = "reencoded" => out = buf

\* C3: an encoding followed by one or more further bytes is rejected with
\* TrailingData, and the error holds no value.
C3_TrailingRejected ==
    (pc = "decoded" /\ src = "value" /\ suffix # <<>>) =>
        (~res.ok /\ res.err = "TrailingData" /\ "val" \notin DOMAIN res)

C3_Witness ==
    /\ pc = "decoded" /\ src = "value" /\ suffix = <<0>>
    /\ ty = StringT /\ val = <<97>> /\ ~res.ok

\* the length prefix the input opens with
DeclaredLen(bts) == deserialize_varint(Reader(bts, Len(bts)))

\* the input is a variable-length field whose declared length exceeds the bytes
\* that follow it (every element type of the model takes at least one byte)
Overlong(t, p) == t.k \in {"string", "bytes", "seq"} /\ p.ok /\ p.val > Len(p.rd.rest)

DeclaresTooMuch == pc = "decoded" /\ src = "input" /\ Overlong(ty, DeclaredLen(buf))

MaxStr == 2        \* longest string of a json input

\* '+', '0', '7', 'A', 'a', 'g'
TextChars == {43, 48, 55, 65, 97, 103}
\* "", "0", "0a", "A0", "g0", "0aab"
ElemStrings == {<<>>, <<48>>, <<48, 97>>, <<65, 48>>, <<103, 48>>, <<48, 97, 97, 98>>}

TextStrs == {Str(s) : s \in SeqsUpTo(TextChars, MaxStr)}
TextNums == {Num(n) : n \in {0, 7, 65535, 65536}}
TextObjs == {Obj(key, c) : key \in {"laboo", "other"}, c \in TextStrs \cup {Num(7)}}
TextArrs == {Arr(xs) : xs \in SeqsUpTo({Str(s) : s \in ElemStrings} \cup {Num(7)}, MaxSeq)}
TextInputs == TextStrs \cup TextNums \cup TextObjs \cup TextArrs

Wrapped == {U16, StringT, Inner}
AdapterTypes == {AsStr(t) : t \in Wrapped} \cup {TryAsStr(t) : t \in Wrapped} \cup {HexVec}

\* stdcode::serialize / stdcode::deserialize for bincode; for json the value's
\* Serialize / Deserialize driven by a human-readable format
to_format(f, t, v) == IF f = "bincode" THEN serialize(t, v) ELSE text_ser(t, v)
from_format(f, t, b) == IF f = "bincode" THEN deserialize(t, b) ELSE text_de(t, b)

InitAdapter ==
    /\ pc = "start"
    /\ fmt \in {"bincode", "json"}
    /\ ty \in AdapterTypes
    /\ \/ /\ src = "value" /\ val \in ValuesOf(ty) /\ buf = <<>>
          /\ ty.k \in {"asstr", "try_asstr"} => HasDisplay(ty.t)
       \/ /\ src = "input" /\ val = None
          /\ buf \in IF fmt = "bincode" THEN SeqsUpTo(InputBytes, MaxLen) ELSE TextInputs
    /\ suffix = <<>>
    /\ res = None
    /\ out = None
    /\ elems = <<>>
    /\ beacon = None

\* the field is written through its adapter
AdapterEncode ==
    /\ pc = "start" /\ src = "value"
    /\ buf' = to_format(fmt, ty, val)
    /\ pc' = "encoded"
    /\ UNCHANGED <<fmt, ty, src, val, suffix, res, out, elems, beacon>>

\* the field is read through its adapter
AdapterDecode ==
    /\ pc \in {"start", "encoded"}
    /\ pc = "start" => src = "input"
    /\ res' = from_format(fmt, ty, buf)
    /\ pc' = "decoded"
    /\ UNCHANGED <<fmt, ty, src, val, buf, suffix, out, elems, beacon>>

\* a caller sends the decoded value in the wrapped type's own form, and the
\* field is read from that
DecodeNativeForm ==
    /\ pc = "decoded" /\ res.ok /\ ty.k \in {"asstr", "try_asstr"}
    /\ out' = from_format(fmt, ty, to_format(fmt, ty.t, res.val))
    /\ pc' = "native_decoded"
    /\ UNCHANGED <<fmt, ty, src, val, buf, suffix, res, elems, beacon>>

NextAdapter == AdapterEncode \/ AdapterDecode \/ DecodeNativeForm

SpecAdapter == InitAdapter /\ [][NextAdapter]_vars

TextMode == fmt = "json"
BinaryMode == fmt = "bincode"

\* C5: in text mode try_asstr reads a string FromStr accepts as the parsed
\* value, reads that value's native text form as the same value, and writes a
\* value as the string of its Display form.
C5_LenientEquivalence ==
    (TextMode /\ ty.k = "try_asstr") =>
        /\ (pc = "decoded" /\ buf.k = "str" /\ from_str(ty.t, buf.s).ok) =>
              (res.ok /\ res.val = from_str(ty.t, buf.s).val)
        /\ pc = "native_decoded" => (out.ok /\ out.val = res.val)
        /\ (pc = "encoded" /\ suffix = <<>>) => buf = Str(to_string(ty.t, val))

C5_Witness ==
    /\ TextMode /\ ty = TryAsStr(Inner) /\ pc = "native_decoded"
    /\ buf = Str(<<97, 48>>) /\ res.ok /\ res.variant = "String"
    /\ out.ok /\ out.variant = "Tee" /\ out.val = [laboo |-> <<97, 48>>]

\* C6 as stated: in text mode try_asstr attempts exactly the branch the input's
\* shape selects; none is attempted and then discarded.
C6_NoBranchDiscarded ==
    (pc = "decoded" /\ TextMode /\ ty.k = "try_asstr") =>
        res.tried = IF buf.k = "str" THEN <<"String">> ELSE <<"Tee">>

\* C6 amended: the input's shape alone decides which branch produces the
\* result.  A string is taken by the string branch and never handed to the
\* native one, also when FromStr rejects it or T's native form is a string.
\* Any other input is first attempted as the String variant, which fails on
\* its shape and is discarded, and is then handed to the native branch.
C6_ShapeDecides ==
    (pc = "decoded" /\ TextMode /\ ty.k = "try_asstr") =>
        /\ buf.k = "str" => res.tried = <<"String">>
        /\ buf.k # "str" => res.tried = <<"String", "Tee">>
        /\ res.ok => (res.variant = IF buf.k = "str" THEN "String" ELSE "Tee")
        /\ buf.k = "str" => res = MaybeString_parsed(
               [ok |-> TRUE, variant |-> "String", val |-> buf.s, tried |-> <<"String">>],
               from_str(ty.t, buf.s))

C6_Witness ==
    /\ pc = "decoded" /\ TextMode /\ ty = TryAsStr(StringT)
    /\ buf = Str(<<97>>) /\ res.ok /\ res.variant = "String" /\ res.tried = <<"String">>

\* C7: in text mode asstr reads a string FromStr rejects as a ParseError that
\* carries FromStr's error, and a string FromStr accepts as the parsed value.
C7_ParseMismatch ==
    (pc = "decoded" /\ TextMode /\ ty.k = "asstr" /\ buf.k = "str") =>
        IF from_str(ty.t, buf.s).ok
        THEN res.ok /\ res.val = from_str(ty.t, buf.s).val
        ELSE /\ ~res.ok /\ res.err = "ParseError"
             /\ res.cause = from_str(ty.t, buf.s).err
             /\ "val" \notin DOMAIN res

C7_Witness ==
    /\ pc = "decoded" /\ TextMode /\ ty = AsStr(U16) /\ buf = Str(<<55, 103>>)
    /\ ~res.ok /\ res.err = "ParseError" /\ res.cause = "InvalidDigit"

\* C8: in binary mode an asstr or try_asstr field is written as the wrapped
\* type's own encoding and read as its own decoder reads it; in text mode it is
\* written as the string of its Display form.
C8_BinaryTransparent ==
    ty.k \in {"asstr", "try_asstr"} =>
        /\ (pc = "encoded" /\ BinaryMode) => buf = serialize(ty.t, val)
        /\ (pc = "decoded" /\ BinaryMode) => res = deserialize(ty.t, buf)
        /\ (pc = "encoded" /\ TextMode) => buf = Str(to_string(ty.t, val))

C8_Witness ==
    /\ pc = "decoded" /\ BinaryMode /\ ty = AsStr(U16) /\ src = "value" /\ val = 256
    /\ buf = <<251, 0, 1>> /\ res.ok /\ res.val = 256

\* each buffer wrapped one by one with HexBytesInner::from, and unwrapped
wrap_each(xs) == [i \in 1..Len(xs) |-> HexBytesInner_from(xs[i])]
unwrap_each(hs) == [i \in 1..Len(hs) |-> HexBytesInner_into(hs[i])]
unwrapped(r) == IF r.ok THEN [r EXCEPT !.val = unwrap_each(r.val)] ELSE r

HashLen == 32

\* bit b of the byte x
bit(x, b) == (x \div 2^b) % 2

\* x & y on u8
BitAnd(x, y) ==
    LET weight(b) == IF bit(x, b) = 1 /\ bit(y, b) = 1 THEN 2^b ELSE 0
    IN weight(0) + weight(1) + weight(2) + weight(3)
       + weight(4) + weight(5) + weight(6) + weight(7)

\* the inner loop of bitwise_majority: the members counted as ones are those
\* with  member & (1 << bit_idx) == 1
one_count(bytes, bit_idx) ==
    Cardinality({j \in 1..Len(bytes) : BitAnd(bytes[j], 2^bit_idx) = 1})
zero_count(bytes, bit_idx) ==
    Cardinality({j \in 1..Len(bytes) : BitAnd(bytes[j], 2^bit_idx) # 1})

RECURSIVE majority_bits(_, _)
majority_bits(bytes, bit_idx) ==
    IF bit_idx = 8 THEN 0
    ELSE (IF one_count(bytes, bit_idx) > zero_count(bytes, bit_idx) THEN 2^bit_idx ELSE 0)
         + majority_bits(bytes, bit_idx + 1)

bitwise_majority(bytes) == majority_bits(bytes, 0)

majority_beacon(es) ==
    [i \in 1..HashLen |-> bitwise_majority([j \in 1..Len(es) |-> es[j][i]])]

\* hashes of one repeated byte, and one whose bytes differ
SampleHashBytes == {0, 1, 2, 255}
SampleHashes ==
    {[i \in 1..HashLen |-> b] : b \in SampleHashBytes}
        \cup {[i \in 1..HashLen |-> IF i % 2 = 0 THEN 3 ELSE 128]}

InitBeacon ==
    /\ pc = "start"
    /\ elems \in SeqsUpTo(SampleHashes, MaxElems)
    /\ beacon = None
    /\ fmt = "bincode" /\ ty = Unit /\ src = "value" /\ val = None
    /\ buf = <<>> /\ suffix = <<>> /\ res = None /\ out = None

MajorityBeacon ==
    /\ pc = "start"
    /\ beacon' = majority_beacon(elems)
    /\ pc' = "done"
    /\ UNCHANGED <<fmt, ty, src, val, buf, suffix, res, out, elems>>

NextBeacon == MajorityBeacon

SpecBeacon == InitBeacon /\ [][NextBeacon]_vars

\* C10: for a non-empty list of hashes, bit b of byte i of the beacon is set
\* exactly when strictly more than half of the hashes have bit b of byte i set.
C10_BitwiseMajority ==
    (pc = "done" /\ elems # <<>>) =>
        \A i \in 1..HashLen, b \in 0..7 :
            bit(beacon[i], b) = 1 <=>
                2 * Cardinality({j \in 1..Len(elems) : bit(elems[j][i], b) = 1}) > Len(elems)

====
